---- MODULE Spec2Model ----
(***************************************************************************)
(* Entitlement and diagnosis-session subsystem of the crop diagnosis app.  *)
(*                                                                         *)
(* The browser side is src/src/App.tsx (its last revision, lines 572-1050, *)
(* the one with accounts and quotas); the payment webhook is the cloud     *)
(* function polarWebhook of src/unnamed/part_001.                          *)
(*                                                                         *)
(* A session is one mounted App component (one browser tab).  The tabs of  *)
(* the model belong to one browser profile: they share localStorage, and   *)
(* the auth callback reaches each tab on its own.  Every await of the code *)
(* is a point where the other handlers, the other tab and the webhook may  *)
(* run: a remote call is split into the step the server takes and the      *)
(* step in which the awaiting code continues.  A handler keeps the values  *)
(* of the render it was started from (its closure), so every pending call  *)
(* carries them.                                                           *)
(***************************************************************************)
EXTENDS Integers, Sequences, FiniteSets, TLC

\* ------------------------------------------------------------ constants
GUEST_DIAGNOSIS_LIMIT == 5
USER_DIAGNOSIS_LIMIT == 20
MAX_HISTORY_ITEMS == 20
\* Stands for the IEEE value Infinity: larger than any counter of the model.
Infinity == 1000

\* --------------------------------------------------------------- bounds
\* Spec: auth callbacks delivered
MaxAuth == 2
\* Spec: handleDiagnose invocations that start an oracle call
MaxDiag == 2
\* Spec: webhook deliveries
MaxHook == 1
\* Spec: handleSimulatePayment invocations
MaxPay == 1
\* updateUserState calls pending in one tab
MaxReads == 2
\* SpecGuests: oracle calls started, over both tabs
GuestDiag == 3
\* SpecHook: webhook deliveries
HookDeliveries == 3
\* the ledger specification: diagnoses, page loads after the first,
\* deletions, the
\* clock at the first page load and the ticks it makes after it
LedgerDiag == 2
MaxLoad == 1
MaxDelete == 1
\* requests to the /diagnose endpoint, and diagnoses of the session beside it
MaxRequests == 2
RequestDiag == 2
\* one session with two users: changes of the signed-in user, and diagnoses
SwitchAuth == 3
SwitchDiag == 2
\* two tabs of one account: diagnoses left before the limit, and attempts
TabsLeft == 2
TabsDiag == 4
FirstNow == 30
MaxTicks == 2

Tabs == {"tabA", "tabB"}
Uids == {"u1", "u2"}
NoUser == "null"
NoImage == "null"
Images == {"img", "orig"}

\* currentUser.email and currentUser.displayName of an authenticated user
AuthEmail(u) == IF u = "u1" THEN "a@example.com" ELSE "b@example.com"
AuthName(u) == IF u = "u1" THEN "Ann" ELSE "Bob"

VARIABLES
    docs,            \* Firestore collection users: uid -> document
    guestStore,      \* localStorage guestDiagnosisCount: digits, <<>> when absent
    histStore,       \* localStorage diagnosisHistory
    user,            \* per tab: useState user
    diagnosisCount,  \* per tab: useState diagnosisCount
    diagnosisLimit,  \* per tab: useState diagnosisLimit
    image,           \* per tab: useState image
    loading,         \* per tab: useState loading
    diagnosis,       \* per tab: useState diagnosis
    history,         \* per tab: useState history
    lastAlert,       \* per tab: the last alert() shown
    call,            \* per tab: the pending handleDiagnose call
    reads,           \* per tab: the pending updateUserState calls
    pays,            \* per tab: the pending handleSimulatePayment calls
    hooks,           \* webhook invocations in progress
    responses,       \* webhook responses sent
    now,             \* Date.now()
    quota,           \* localStorage: the room there is for diagnosisHistory
    mounted,         \* per tab: the page is loaded and App has mounted
    api,             \* the /diagnose endpoint: requests, oracle calls, responses
    left             \* what is left of each bound of the model

vars == <<docs, guestStore, histStore, user, diagnosisCount, diagnosisLimit,
          image, loading, diagnosis, history, lastAlert, call, reads,
          pays, hooks, responses, now, quota, mounted, api, left>>

storeVars == <<docs, guestStore, histStore>>
uiVars == <<user, diagnosisCount, diagnosisLimit, image, loading, diagnosis,
            history, lastAlert>>
taskVars == <<call, reads, pays>>
hookVars == <<hooks, responses>>
envVars == <<now, quota>>

\* ------------------------------------------------------------ documents
\* A document is a record of the fields it holds; NoDoc is the absent one.
NoDoc == [exists |-> FALSE]
Exists(d) == d.exists
Has(d, f) == f \in DOMAIN d

\* setDoc(ref, data, {merge: true}) and ref.update(data): the named fields
\* are written, the others kept.
MergeDoc(d, data) ==
    [f \in (DOMAIN d \cup DOMAIN data) |->
        IF f = "exists" THEN TRUE
        ELSE IF f \in DOMAIN data THEN data[f] ELSE d[f]]

\* setDoc(ref, data) without merge: the document becomes data.
SetDoc(data) == MergeDoc([exists |-> TRUE], data)

\* userData.diagnosisCount || 0
DocCount(d) == IF Has(d, "diagnosisCount") THEN d.diagnosisCount ELSE 0
\* userData.hasPaid, as a condition
DocPaid(d) == Has(d, "hasPaid") /\ d.hasPaid
\* userData.diagnosisLimit || USER_DIAGNOSIS_LIMIT
DocLimit(d) ==
    IF Has(d, "diagnosisLimit") /\ d.diagnosisLimit # 0
    THEN d.diagnosisLimit ELSE USER_DIAGNOSIS_LIMIT

\* NewUserDoc with the paid flag set on a limited record
NewUserDocPaid(u) ==
    SetDoc([email |-> AuthEmail(u), displayName |-> AuthName(u),
            diagnosisCount |-> 0, diagnosisLimit |-> USER_DIAGNOSIS_LIMIT,
            hasPaid |-> TRUE, createdAt |-> now])

\* the document updateUserState creates for a user without one
NewUserDoc(u) ==
    SetDoc([email |-> AuthEmail(u), displayName |-> AuthName(u),
            diagnosisCount |-> 0, diagnosisLimit |-> USER_DIAGNOSIS_LIMIT,
            hasPaid |-> FALSE, createdAt |-> now])

\* IncrementDoc counting the diagnosis twice
IncrementDocTwice(d) == MergeDoc(d, [diagnosisCount |-> DocCount(d) + 2])

\* { diagnosisCount: increment(1) } merged into d
IncrementDoc(d) == MergeDoc(d, [diagnosisCount |-> DocCount(d) + 1])

\* PaidData that leaves the limit finite
PaidDataFinite == [hasPaid |-> TRUE, diagnosisLimit |-> USER_DIAGNOSIS_LIMIT]

\* { hasPaid: true, diagnosisLimit: Infinity }
PaidData == [hasPaid |-> TRUE, diagnosisLimit |-> Infinity]

\* ----------------------------------------------- guest counter (string)
RECURSIVE ToStr(_)
\* Number.prototype.toString of a non-negative integer, as decimal digits
ToStr(n) == IF n < 10 THEN <<n>> ELSE ToStr(n \div 10) \o <<n % 10>>

RECURSIVE ParseDigits(_, _)
ParseDigits(s, acc) ==
    IF s = <<>> THEN acc ELSE ParseDigits(Tail(s), 10 * acc + Head(s))

\* parseInt(localStorage.getItem('guestDiagnosisCount') || '0', 10)
GuestCount(store) == IF store = <<>> THEN ParseDigits(<<0>>, 0)
                     ELSE ParseDigits(store, 0)


\* -------------------------------------------------------- history ledger
\* const newHistoryItem = { id: Date.now(), image, diagnosis, date }
HistoryItem(img, text) ==
    [id |-> now, image |-> img, diagnosis |-> text, date |-> now]

\* Array.prototype.slice(0, n)
Slice(s, n) == IF Len(s) <= n THEN s ELSE SubSeq(s, 1, n)

\* Prepend without the slice
\* Prepend that puts the new entry behind the others
PrependLast(item, h) == Slice(h \o <<item>>, MAX_HISTORY_ITEMS)

\* Prepend that keeps every entry
PrependUncut(item, h) == <<item>> \o h

\* [newHistoryItem, ...history].slice(0, MAX_HISTORY_ITEMS)
Prepend(item, h) == Slice(<<item>> \o h, MAX_HISTORY_ITEMS)

\* The value of localStorage diagnosisHistory: no item, a string that is no
\* JSON, JSON that is no array, or a JSON array of entries.  An entry is the
\* record of the fields it holds; a field of the wrong type is a field the
\* entry does not hold, and NotAnObject is an element that is no object.
NoItem == [kind |-> "absent"]
Corrupt == [kind |-> "corrupt"]
NotAnArray == [kind |-> "object"]
ArrayOf(es) == [kind |-> "array", items |-> es]
NotAnObject == [json |-> "null"]

\* JSON.stringify(history) (642): every entry with the fields it has
Stringify(h) == ArrayOf(h)

\* the characters an entry takes in storage: its text, and its image if any
TextSize == 1
ImageSize == 3
EntrySize(e) ==
    TextSize + (IF "image" \in DOMAIN e /\ e.image # NoImage
                THEN ImageSize ELSE 0)
RECURSIVE SizeOf(_)
SizeOf(es) == IF es = <<>> THEN 0 ELSE EntrySize(Head(es)) + SizeOf(Tail(es))

\* localStorage.setItem('diagnosisHistory', v) throws QuotaExceededError
SetItemThrows(v) == v.kind = "array" /\ SizeOf(v.items) > quota

\* isHistoryItem (598-607): an object with image, diagnosis and date
isHistoryItem(e) ==
    /\ "json" \notin DOMAIN e
    /\ {"image", "diagnosis", "date"} \subseteq DOMAIN e

\* IdOf giving every loaded entry a new id
IdOfFresh(e, index) == now + (index - 1)

\* item.id || Date.now() + index (730): index counts from 0
IdOf(e, index) ==
    IF "id" \in DOMAIN e /\ e.id # 0 THEN e.id ELSE now + (index - 1)

\* the history the load effect sets from the parsed array (726-731)
ParsedHistory(es) ==
    LET kept == SelectSeq(es, isHistoryItem)
    IN  Slice([i \in 1..Len(kept) |->
                  [id |-> IdOf(kept[i], i), image |-> kept[i].image,
                   diagnosis |-> kept[i].diagnosis, date |-> kept[i].date]],
              MAX_HISTORY_ITEMS)

\* the responses polarWebhook sends: status and body
Statuses == {"200 updated", "200 skipped", "404", "500"}

\* ----------------------------------------------------------------- Init
NoCall == [pc |-> "idle"]

\* The endpoint before its first request: nothing received, the oracle never
\* called, no call pending, no response sent.
ApiStatuses == {200, 400, 500, 429}
NoRequests ==
    [received |-> 0, calls |-> 0, pending |-> {},
     sent |-> [st \in ApiStatuses |-> 0]]

\* A document as updateUserState created it, after c counted diagnoses.
UserDoc(u, c) ==
    [exists |-> TRUE, email |-> AuthEmail(u), displayName |-> AuthName(u),
     diagnosisCount |-> c, diagnosisLimit |-> USER_DIAGNOSIS_LIMIT,
     hasPaid |-> FALSE, createdAt |-> 0]

\* What earlier sessions may have left: the first user has no document yet
\* or one diagnosis left, the guest counter is absent or one short of the limit.
InitDocs ==
    {[u \in Uids |-> IF u = "u1" THEN d ELSE NoDoc] :
        d \in {NoDoc, UserDoc("u1", USER_DIAGNOSIS_LIMIT - 1)}}
InitGuest == {<<>>, ToStr(GUEST_DIAGNOSIS_LIMIT - 1)}

\* The state of App in every tab after its first auth callback, as a guest
\* (665-676, 702-706); nothing is pending ...
InitApp ==
    /\ user = [t \in Tabs |-> NoUser]
    /\ diagnosisCount = [t \in Tabs |-> GuestCount(guestStore)]
    /\ diagnosisLimit = [t \in Tabs |-> GUEST_DIAGNOSIS_LIMIT]
    /\ image = [t \in Tabs |-> NoImage]
    /\ loading = [t \in Tabs |-> FALSE]
    /\ diagnosis = [t \in Tabs |-> ""]
    /\ history = [t \in Tabs |-> <<>>]
    /\ lastAlert = [t \in Tabs |-> "none"]
    /\ call = [t \in Tabs |-> NoCall]
    /\ reads = [t \in Tabs |-> {}]
    /\ pays = [t \in Tabs |-> {}]
    /\ hooks = {}
    /\ responses = [st \in Statuses |-> 0]
    /\ api = NoRequests

\* ... with no history stored, all the room it may need, at time 1
InitSessions ==
    /\ InitApp
    /\ histStore = NoItem
    /\ now = 1
    /\ quota = Infinity
    /\ mounted = [t \in Tabs |-> TRUE]

Init ==
    /\ docs \in InitDocs
    /\ guestStore \in InitGuest
    /\ InitSessions
    /\ left = [auth |-> MaxAuth, diag |-> MaxDiag, hook |-> MaxHook,
               pay |-> MaxPay, load |-> 0, del |-> 0]

\* ------------------------------------------------------ updateUserState
\* A pending updateUserState(currentUser) call: the user it was given, where
\* it stands, the snapshot getDoc returned, and who awaits it.
NewRead(u, from) == [user |-> u, pc |-> "getDoc", snap |-> NoDoc, from |-> from]

CanRead(t, u, from) ==
    /\ Cardinality(reads[t]) < MaxReads
    /\ NewRead(u, from) \notin reads[t]

\* CountOfDoc that starts every session at 0
CountOfDocReset(d) == 0

\* setDiagnosisCount / setDiagnosisLimit from an existing document (683-689)
CountOfDoc(d) == DocCount(d)
LimitOfDoc(d) == IF DocPaid(d) THEN Infinity ELSE DocLimit(d)

\* the alert handleSimulatePayment shows once its updateUserState returned
AlertAfter(t, r) ==
    IF r.from = "pay" THEN [lastAlert EXCEPT ![t] = "paid"] ELSE lastAlert

\* onAuthStateChanged callback: setUser, then updateUserState up to its
\* first await.  For null there is no await: the guest counter is read.
AuthStateChanged(t, u) ==
    /\ left.auth > 0
    /\ u # user[t]
    /\ user' = [user EXCEPT ![t] = u]
    /\ left' = [left EXCEPT !.auth = @ - 1]
    /\ IF u = NoUser
       THEN /\ diagnosisCount' =
                    [diagnosisCount EXCEPT ![t] = GuestCount(guestStore)]
            /\ diagnosisLimit' =
                    [diagnosisLimit EXCEPT ![t] = GUEST_DIAGNOSIS_LIMIT]
            /\ UNCHANGED reads
       ELSE /\ CanRead(t, u, "auth")
            /\ reads' = [reads EXCEPT ![t] = @ \cup {NewRead(u, "auth")}]
            /\ UNCHANGED <<diagnosisCount, diagnosisLimit>>
    /\ UNCHANGED <<storeVars, image, loading, diagnosis, history, lastAlert,
                   call, pays, hookVars, api, envVars, mounted>>

\* the server answers getDoc(userRef)
GetDocServer(t, r) ==
    /\ r \in reads[t] /\ r.pc = "getDoc"
    /\ reads' = [reads EXCEPT ![t] =
                    (@ \ {r}) \cup {[r EXCEPT !.pc = "gotDoc",
                                              !.snap = docs[r.user]]}]
    /\ UNCHANGED <<storeVars, uiVars, call, pays, hookVars, api, envVars, mounted, left>>

\* updateUserState continues after getDoc (682-698)
GetDocDone(t, r) ==
    /\ r \in reads[t] /\ r.pc = "gotDoc"
    /\ IF Exists(r.snap)
       THEN /\ diagnosisCount' =
                    [diagnosisCount EXCEPT ![t] = CountOfDoc(r.snap)]
            /\ diagnosisLimit' =
                    [diagnosisLimit EXCEPT ![t] = LimitOfDoc(r.snap)]
            /\ reads' = [reads EXCEPT ![t] = @ \ {r}]
            /\ lastAlert' = AlertAfter(t, r)
       ELSE /\ reads' = [reads EXCEPT ![t] =
                            (@ \ {r}) \cup {[r EXCEPT !.pc = "setDoc"]}]
            /\ UNCHANGED <<diagnosisCount, diagnosisLimit, lastAlert>>
    /\ UNCHANGED <<storeVars, user, image, loading, diagnosis, history,
                   call, pays, hookVars, api, envVars, mounted, left>>

\* the server applies the setDoc of 691-698 (no merge)
CreateServer(t, r) ==
    /\ r \in reads[t] /\ r.pc = "setDoc"
    /\ docs' = [docs EXCEPT ![r.user] = NewUserDoc(r.user)]
    /\ reads' = [reads EXCEPT ![t] = (@ \ {r}) \cup {[r EXCEPT !.pc = "didSet"]}]
    /\ UNCHANGED <<guestStore, histStore, uiVars, call, pays, hookVars, api, envVars, mounted, left>>

\* updateUserState continues after that setDoc (699-700)
CreateDone(t, r) ==
    /\ r \in reads[t] /\ r.pc = "didSet"
    /\ diagnosisCount' = [diagnosisCount EXCEPT ![t] = 0]
    /\ diagnosisLimit' = [diagnosisLimit EXCEPT ![t] = USER_DIAGNOSIS_LIMIT]
    /\ reads' = [reads EXCEPT ![t] = @ \ {r}]
    /\ lastAlert' = AlertAfter(t, r)
    /\ UNCHANGED <<storeVars, user, image, loading, diagnosis, history,
                   call, pays, hookVars, api, envVars, mounted, left>>


\* ------------------------------------------------------- handleDiagnose
\* const isLimitReached = diagnosisCount >= diagnosisLimit (805, 881)
IsLimitReached(t) == diagnosisCount[t] >= diagnosisLimit[t]

\* the alert of 806-809
QuotaMessage(t) == IF user[t] # NoUser THEN "quotaUser" ELSE "quotaGuest"

\* saveHistoryToLocalStorage (640-649): setItem stores the serialized ledger,
\* or throws QuotaExceededError for lack of room, and then the alert is shown
\* and nothing is stored.
SaveHistory(t, h) ==
    /\ histStore' = IF SetItemThrows(Stringify(h)) THEN histStore
                    ELSE Stringify(h)
    /\ lastAlert' = IF SetItemThrows(Stringify(h))
                    THEN [lastAlert EXCEPT ![t] = "storage"]
                    ELSE lastAlert

\* FinishDiagnose keeping the new history only when it could be stored
FinishDiagnoseIfSaved(t, c) ==
    LET new == Prepend(HistoryItem(c.image, c.newDiagnosis), c.history)
    IN  /\ history' = [history EXCEPT ![t] =
                          IF SetItemThrows(Stringify(new)) THEN @ ELSE new]
        /\ SaveHistory(t, new)
        /\ loading' = [loading EXCEPT ![t] = FALSE]
        /\ call' = [call EXCEPT ![t] = NoCall]

\* the end of the try block (839-842) and the finally (851)
FinishDiagnose(t, c) ==
    /\ history' = [history EXCEPT ![t] =
                      Prepend(HistoryItem(c.image, c.newDiagnosis), c.history)]
    /\ SaveHistory(t, history'[t])
    /\ loading' = [loading EXCEPT ![t] = FALSE]
    /\ call' = [call EXCEPT ![t] = NoCall]

\* FailDiagnose without the finally of 851
FailDiagnoseStillLoading(t) ==
    /\ diagnosis' = [diagnosis EXCEPT ![t] = "error"]
    /\ loading' = loading
    /\ call' = [call EXCEPT ![t] = NoCall]

\* the catch block (844-849) and the finally (851)
FailDiagnose(t) ==
    /\ diagnosis' = [diagnosis EXCEPT ![t] = "error"]
    /\ loading' = [loading EXCEPT ![t] = FALSE]
    /\ call' = [call EXCEPT ![t] = NoCall]

\* the first check of handleDiagnose (803): no image, nothing happens
DiagnoseNoImage(t) ==
    /\ image[t] = NoImage
    /\ UNCHANGED vars

\* the quota check (805-811): the alert, and nothing else
DiagnoseBlocked(t) ==
    /\ image[t] # NoImage
    /\ IsLimitReached(t)
    /\ lastAlert' = [lastAlert EXCEPT ![t] = QuotaMessage(t)]
    /\ UNCHANGED <<storeVars, user, diagnosisCount, diagnosisLimit, image,
                   loading, diagnosis, history, taskVars, hookVars, api,
                   envVars, mounted, left>>

\* DiagnoseStart without the quota check of 805
DiagnoseStartUnchecked(t) ==
    /\ image[t] # NoImage
    /\ left.diag > 0
    /\ loading' = [loading EXCEPT ![t] = TRUE]
    /\ diagnosis' = [diagnosis EXCEPT ![t] = ""]
    /\ call' = [call EXCEPT ![t] =
                  [pc |-> "oracle", image |-> image[t],
                   diagnosisCount |-> diagnosisCount[t],
                   diagnosisLimit |-> diagnosisLimit[t],
                   user |-> user[t], history |-> history[t],
                   newDiagnosis |-> "", at |-> now]]
    /\ left' = [left EXCEPT !.diag = @ - 1]
    /\ UNCHANGED <<storeVars, user, diagnosisCount, diagnosisLimit, image,
                   history, lastAlert, reads, pays, hookVars, api, envVars, mounted>>

\* the request is sent (813-825); the call keeps the values of its render
DiagnoseStart(t) ==
    /\ image[t] # NoImage
    /\ ~IsLimitReached(t)
    /\ left.diag > 0
    /\ loading' = [loading EXCEPT ![t] = TRUE]
    /\ diagnosis' = [diagnosis EXCEPT ![t] = ""]
    /\ call' = [call EXCEPT ![t] =
                  [pc |-> "oracle", image |-> image[t],
                   diagnosisCount |-> diagnosisCount[t],
                   diagnosisLimit |-> diagnosisLimit[t],
                   user |-> user[t], history |-> history[t],
                   newDiagnosis |-> "", at |-> now]]
    /\ left' = [left EXCEPT !.diag = @ - 1]
    /\ UNCHANGED <<storeVars, user, diagnosisCount, diagnosisLimit, image,
                   history, lastAlert, reads, pays, hookVars, api, envVars, mounted>>

\* HandleDiagnose behind a button that stays enabled while loading
HandleDiagnoseWhileLoading(t) ==
    \/ DiagnoseNoImage(t)
    \/ DiagnoseBlocked(t)
    \/ DiagnoseStart(t)

\* handleDiagnose up to its first await.  The button that calls it is
\* disabled while loading (953); the handler checks the rest itself.
HandleDiagnose(t) ==
    /\ ~loading[t]
    /\ \/ DiagnoseNoImage(t)
       \/ DiagnoseBlocked(t)
       \/ DiagnoseStart(t)

\* what the oracle call can come to
OracleOutcomes == {"text", "empty", "malformed", "error"}

\* response.choices[0].message.content || '...' (827): a rejected call and a
\* response without choices throw; an empty content becomes the stock text
OracleThrows(o) == o \in {"malformed", "error"}
NewDiagnosis(o) == IF o = "text" THEN "result" ELSE "unavailable"

\* which counter the call increments (830, 834)
CountsRemotely(c) == c.user # NoUser /\ c.diagnosisLimit # Infinity
CountsLocally(c) == c.user = NoUser

\* the await of 817 returns or throws; the code runs on to its next await
OracleDone(t, o) ==
    LET c == [call[t] EXCEPT !.newDiagnosis = NewDiagnosis(o)] IN
    /\ call[t].pc = "oracle"
    /\ IF OracleThrows(o)
       THEN /\ FailDiagnose(t)
            /\ UNCHANGED <<storeVars, diagnosisCount, history, lastAlert>>
       ELSE IF CountsRemotely(c)
       THEN /\ diagnosis' = [diagnosis EXCEPT ![t] = c.newDiagnosis]
            /\ call' = [call EXCEPT ![t] = [c EXCEPT !.pc = "incr"]]
            /\ UNCHANGED <<storeVars, diagnosisCount, history, lastAlert,
                           loading>>
       ELSE /\ diagnosis' = [diagnosis EXCEPT ![t] = c.newDiagnosis]
            /\ IF CountsLocally(c)
               THEN /\ guestStore' = ToStr(c.diagnosisCount + 1)
                    /\ diagnosisCount' =
                            [diagnosisCount EXCEPT ![t] = @ + 1]
               ELSE UNCHANGED <<guestStore, diagnosisCount>>
            /\ FinishDiagnose(t, c)
            /\ UNCHANGED docs
    /\ UNCHANGED <<user, diagnosisLimit, image, reads, pays,
                   hookVars, api, envVars, mounted, left>>

\* IncrServer counting for whoever is signed in when the write is sent
IncrServerCurrent(t) ==
    /\ call[t].pc = "incr"
    /\ IF user[t] = NoUser
       THEN /\ guestStore' = ToStr(GuestCount(guestStore) + 1)
            /\ UNCHANGED docs
       ELSE /\ docs' = [docs EXCEPT ![user[t]] = IncrementDoc(@)]
            /\ UNCHANGED guestStore
    /\ call' = [call EXCEPT ![t].pc = "ack"]
    /\ UNCHANGED <<histStore, uiVars, reads, pays, hookVars, api, envVars, mounted, left>>

\* the server applies { diagnosisCount: increment(1) } (832)
IncrServer(t) ==
    /\ call[t].pc = "incr"
    /\ docs' = [docs EXCEPT ![call[t].user] = IncrementDoc(@)]
    /\ call' = [call EXCEPT ![t].pc = "ack"]
    /\ UNCHANGED <<guestStore, histStore, uiVars, reads, pays, hookVars, api, envVars, mounted, left>>

\* the server rejects the write: the await of 832 throws
IncrFail(t) ==
    /\ call[t].pc = "incr"
    /\ FailDiagnose(t)
    /\ UNCHANGED <<storeVars, user, diagnosisCount, diagnosisLimit, image,
                   history, lastAlert, reads, pays, hookVars, api, envVars, mounted, left>>

\* handleDiagnose continues after the write (833, 839-842, 851)
IncrDone(t) ==
    /\ call[t].pc = "ack"
    /\ diagnosisCount' = [diagnosisCount EXCEPT ![t] = @ + 1]
    /\ FinishDiagnose(t, call[t])
    /\ UNCHANGED <<docs, guestStore, user, diagnosisLimit, image, diagnosis,
                   reads, pays, hookVars, api, envVars, mounted, left>>

\* A file the user chooses or drops: its MIME type, what resizeImage comes
\* to with it (614-638: the resized JPEG, or a rejection by img.onerror, by
\* the missing 2d context or by reader.onerror), and what the FileReader of
\* the fallback comes to (773-775).
FileTypes == {"image/png", "text/plain"}
ResizeOutcomes == {"resized", "decodeError", "noContext", "readError"}
ReadOutcomes == {"loaded", "error"}
Files == [type : FileTypes, resize : ResizeOutcomes, read : ReadOutcomes]

\* file.type.startsWith('image/') (766)
IsImageType(ty) == ty = "image/png"

\* canvas.toDataURL('image/jpeg', 0.8) (627): the resized encoding
toDataURL(file) == "img"

\* reader.result when onloadend fires (774): the original encoding, or null
\* after a read error
readAsDataURL(file) == IF file.read = "loaded" THEN "orig" ELSE NoImage

\* the files that are images and can be resized
GoodFiles == {file \in Files : IsImageType(file.type)
                                 /\ file.resize = "resized"
                                 /\ file.read = "loaded"}

\* processFile (765-778), to the end of what it started
ProcessFile(t, file) ==
    /\ IF ~IsImageType(file.type)
       THEN UNCHANGED <<image, diagnosis>>
       ELSE IF file.resize = "resized"
       THEN /\ image' = [image EXCEPT ![t] = toDataURL(file)]
            /\ diagnosis' = [diagnosis EXCEPT ![t] = ""]
       ELSE /\ image' = [image EXCEPT ![t] = readAsDataURL(file)]
            /\ UNCHANGED diagnosis
    /\ UNCHANGED <<storeVars, user, diagnosisCount, diagnosisLimit, loading,
                   history, lastAlert, taskVars, hookVars, api, envVars, mounted, left>>


\* ------------------------------------------------ handleSimulatePayment
\* The button is rendered for a signed-in user whose limit is finite (912);
\* the handler keeps that render's user (869-870) and sends the write (872).
PayClick(t) ==
    /\ user[t] # NoUser
    /\ diagnosisLimit[t] # Infinity
    /\ left.pay > 0
    /\ [user |-> user[t]] \notin pays[t]
    /\ pays' = [pays EXCEPT ![t] = @ \cup {[user |-> user[t]]}]
    /\ left' = [left EXCEPT !.pay = @ - 1]
    /\ UNCHANGED <<storeVars, uiVars, call, reads, hookVars, api, envVars, mounted>>

\* the server applies { hasPaid: true, diagnosisLimit: Infinity } with merge
\* (872), and the handler goes on to updateUserState(user) (873)
PayServer(t, p) ==
    /\ p \in pays[t]
    /\ CanRead(t, p.user, "pay")
    /\ docs' = [docs EXCEPT ![p.user] = MergeDoc(@, PaidData)]
    /\ pays' = [pays EXCEPT ![t] = @ \ {p}]
    /\ reads' = [reads EXCEPT ![t] = @ \cup {NewRead(p.user, "pay")}]
    /\ UNCHANGED <<guestStore, histStore, uiVars, call, hookVars, api, envVars, mounted, left>>

\* the write is rejected: the catch of 875-878
PayFail(t, p) ==
    /\ p \in pays[t]
    /\ pays' = [pays EXCEPT ![t] = @ \ {p}]
    /\ lastAlert' = [lastAlert EXCEPT ![t] = "payFailed"]
    /\ UNCHANGED <<storeVars, user, diagnosisCount, diagnosisLimit, image,
                   loading, diagnosis, history, call, reads,
                   hookVars, api, envVars, mounted, left>>

\* ------------------------------------------------------ history ledger
\* Mount leaving a stored value that does not parse where it is
MountKeepingCorrupt(t) ==
    /\ ~mounted[t]
    /\ mounted' = [mounted EXCEPT ![t] = TRUE]
    /\ user' = [user EXCEPT ![t] = NoUser]
    /\ diagnosisCount' = [diagnosisCount EXCEPT ![t] = GuestCount(guestStore)]
    /\ diagnosisLimit' = [diagnosisLimit EXCEPT ![t] = GUEST_DIAGNOSIS_LIMIT]
    /\ history' = [history EXCEPT ![t] =
                      IF histStore.kind = "array"
                      THEN ParsedHistory(histStore.items) ELSE <<>>]
    /\ UNCHANGED <<storeVars, image, loading, diagnosis, lastAlert,
                   taskVars, hookVars, api, envVars, left>>

\* the effect that loads the history when App mounts (722-738), after the
\* first auth callback has set the guest's state (702-706, 709-715)
Mount(t) ==
    /\ ~mounted[t]
    /\ mounted' = [mounted EXCEPT ![t] = TRUE]
    /\ user' = [user EXCEPT ![t] = NoUser]
    /\ diagnosisCount' = [diagnosisCount EXCEPT ![t] = GuestCount(guestStore)]
    /\ diagnosisLimit' = [diagnosisLimit EXCEPT ![t] = GUEST_DIAGNOSIS_LIMIT]
    /\ history' = [history EXCEPT ![t] =
                      IF histStore.kind = "array"
                      THEN ParsedHistory(histStore.items) ELSE <<>>]
    /\ histStore' = IF histStore.kind = "corrupt" THEN NoItem ELSE histStore
    /\ UNCHANGED <<docs, guestStore, image, loading, diagnosis, lastAlert,
                   taskVars, hookVars, api, envVars, left>>

\* the page is closed or reloaded: the state of App is gone, and what it
\* waited for is never continued
Unload(t) ==
    /\ mounted[t] /\ left.load > 0
    /\ left' = [left EXCEPT !.load = @ - 1]
    /\ mounted' = [mounted EXCEPT ![t] = FALSE]
    /\ user' = [user EXCEPT ![t] = NoUser]
    /\ diagnosisCount' = [diagnosisCount EXCEPT ![t] = 0]
    /\ diagnosisLimit' = [diagnosisLimit EXCEPT ![t] = GUEST_DIAGNOSIS_LIMIT]
    /\ image' = [image EXCEPT ![t] = NoImage]
    /\ loading' = [loading EXCEPT ![t] = FALSE]
    /\ diagnosis' = [diagnosis EXCEPT ![t] = ""]
    /\ history' = [history EXCEPT ![t] = <<>>]
    /\ lastAlert' = [lastAlert EXCEPT ![t] = "none"]
    /\ call' = [call EXCEPT ![t] = NoCall]
    /\ reads' = [reads EXCEPT ![t] = {}]
    /\ pays' = [pays EXCEPT ![t] = {}]
    /\ UNCHANGED <<storeVars, hookVars, api, envVars>>

\* handleDeleteHistoryItem (855-865), the confirm dialog accepted
DeleteHistoryItem(t, idToDelete) ==
    /\ mounted[t] /\ left.del > 0
    /\ left' = [left EXCEPT !.del = @ - 1]
    /\ \E i \in 1..Len(history[t]) : history[t][i].id = idToDelete
    /\ history' = [history EXCEPT ![t] =
                      SelectSeq(@, LAMBDA item : item.id # idToDelete)]
    /\ SaveHistory(t, history'[t])
    /\ UNCHANGED <<docs, guestStore, user, diagnosisCount, diagnosisLimit,
                   image, loading, diagnosis, taskVars, hookVars, api, envVars,
                   mounted>>

\* time passes
Tick ==
    /\ now < FirstNow + MaxTicks
    /\ now' = now + 1
    /\ UNCHANGED <<storeVars, uiVars, taskVars, hookVars, api, quota, mounted,
                   left>>

\* --------------------------------------------------------- polarWebhook
\* request.body: the event type, and either the nested payload with the
\* organization name and the payer email, or no payload at all
EventTypes == {"pledge_created", "pledge_updated"}
OrgNames == {"nmdong-hue", "NMDONG-HUE", "other"}
PayerEmails == {"a@example.com", "A@example.com"}
HookEvents ==
    [type : EventTypes, payload : {TRUE}, org : OrgNames, email : PayerEmails]
    \cup [type : EventTypes, payload : {FALSE}, org : {""}, email : {""}]

\* String.prototype.toLowerCase on the strings of the model
ToLowerCase(s) ==
    IF s = "NMDONG-HUE" THEN "nmdong-hue"
    ELSE IF s = "A@example.com" THEN "a@example.com" ELSE s

\* reading event.payload.pledge... of an event without payload throws
HookThrows(ev) == ev.type = "pledge_created" /\ ~ev.payload
\* the condition of line 35
HookMatches(ev) ==
    ev.type = "pledge_created" /\ ToLowerCase(ev.org) = "nmdong-hue"

Respond(st) == [responses EXCEPT ![st] = @ + 1]

\* EmailEquals comparing without regard to case
EmailEqualsIgnoreCase(d, email) ==
    Exists(d) /\ Has(d, "email") /\ ToLowerCase(d.email) = ToLowerCase(email)

\* the documents where('email', '==', customerEmail) selects
EmailEquals(d, email) == Exists(d) /\ Has(d, "email") /\ d.email = email
Matching(email) == {u \in Uids : EmailEquals(docs[u], email)}
\* .limit(1): the first of them in document id order
UidOrder == <<"u1", "u2">>
FirstMatch(email) ==
    UidOrder[CHOOSE i \in 1..Len(UidOrder) :
                /\ UidOrder[i] \in Matching(email)
                /\ \A j \in 1..(i - 1) : UidOrder[j] \notin Matching(email)]

\* the handler of event ev waiting for query.get(): it holds the event's
\* organization name and customerEmail (id tells the invocations apart)
NewHook(ev) ==
    [id |-> left.hook, email |-> ev.email, org |-> ev.org, pc |-> "query",
     target |-> NoUser]

\* the request arrives; the handler runs to its first await (32-42)
HookReceive(ev) ==
    /\ left.hook > 0
    /\ left' = [left EXCEPT !.hook = @ - 1]
    /\ IF HookThrows(ev)
       THEN responses' = Respond("500") /\ UNCHANGED hooks
       ELSE IF HookMatches(ev)
       THEN /\ NewHook(ev) \notin hooks
            /\ hooks' = hooks \cup {NewHook(ev)}
            /\ UNCHANGED responses
       ELSE responses' = Respond("200 skipped") /\ UNCHANGED hooks
    /\ UNCHANGED <<storeVars, uiVars, taskVars, envVars, api, mounted>>

\* query.get() returns (42-51): not found, or the update is sent
HookQuery(h) ==
    /\ h \in hooks /\ h.pc = "query"
    /\ IF Matching(h.email) = {}
       THEN /\ responses' = Respond("404")
            /\ hooks' = hooks \ {h}
       ELSE /\ hooks' = (hooks \ {h}) \cup
                    {[h EXCEPT !.pc = "update",
                               !.target = FirstMatch(h.email)]}
            /\ UNCHANGED responses
    /\ UNCHANGED <<storeVars, uiVars, taskVars, envVars, api, mounted, left>>

\* HookUpdate writing to every document that holds the payer's email
HookUpdateAll(h) ==
    /\ h \in hooks /\ h.pc = "update"
    /\ hooks' = hooks \ {h}
    /\ IF Exists(docs[h.target])
       THEN /\ docs' = [u \in Uids |->
                          IF EmailEquals(docs[u], h.email)
                          THEN MergeDoc(docs[u], PaidData) ELSE docs[u]]
            /\ responses' = Respond("200 updated")
       ELSE /\ responses' = Respond("500")
            /\ UNCHANGED docs
    /\ UNCHANGED <<guestStore, histStore, uiVars, taskVars, envVars, api, mounted, left>>

\* userDoc.ref.update(...) is applied and answered (52-58)
HookUpdate(h) ==
    /\ h \in hooks /\ h.pc = "update"
    /\ hooks' = hooks \ {h}
    /\ IF Exists(docs[h.target])
       THEN /\ docs' = [docs EXCEPT ![h.target] = MergeDoc(@, PaidData)]
            /\ responses' = Respond("200 updated")
       ELSE /\ responses' = Respond("500")
            /\ UNCHANGED docs
    /\ UNCHANGED <<guestStore, histStore, uiVars, taskVars, envVars, api, mounted, left>>

\* HookFail answering 500 for a write that was applied all the same
HookFailAfterWrite(h) ==
    /\ h \in hooks /\ h.pc = "update" /\ Exists(docs[h.target])
    /\ hooks' = hooks \ {h}
    /\ docs' = [docs EXCEPT ![h.target] = MergeDoc(@, PaidData)]
    /\ responses' = Respond("500")
    /\ UNCHANGED <<guestStore, histStore, uiVars, taskVars, envVars, api, mounted, left>>

\* the store rejects the query or the update (a rejected write is a write
\* that was not applied): the catch of 64-71
HookFail(h) ==
    /\ h \in hooks
    /\ hooks' = hooks \ {h}
    /\ responses' = Respond("500")
    /\ UNCHANGED <<storeVars, uiVars, taskVars, envVars, api, mounted, left>>

\* ----------------------------------------------------------------- Next
\* ------------------------------------------------- POST /diagnose (api)
\* req.body: a field that is absent or empty is "" (both are falsy)
ApiRequests == [image : {"", "img"}, crop : {"", "rice"}]

\* ApiRejects that asks for the image only
ApiRejectsNoImage(req) == req.image = ""

\* !image || !crop (65)
ApiRejects(req) == req.image = "" \/ req.crop = ""

\* the status the handler sends for what the oracle call came to: 200 with
\* the content (97), the status of error.response (103), 500 otherwise (105)
ApiStatusOf(o) ==
    IF o \in {"text", "empty"} THEN 200
    ELSE IF o = "error" THEN 429 ELSE 500

ApiSend(st) == [api.sent EXCEPT ![st] = @ + 1]

\* the handler up to its await (63-69): the 400 (66), or the oracle call
ApiDiagnose(req) ==
    /\ api.received < MaxRequests
    /\ IF ApiRejects(req)
       THEN api' = [api EXCEPT !.received = @ + 1, !.sent = ApiSend(400)]
       ELSE api' = [api EXCEPT !.received = @ + 1, !.calls = @ + 1,
                               !.pending = @ \cup
                                   {[id |-> api.received, image |-> req.image,
                                     crop |-> req.crop]}]
    /\ UNCHANGED <<storeVars, uiVars, taskVars, hookVars, envVars, mounted,
                   left>>

\* the await of 70 returns or throws, and the response is sent (97-106)
ApiOracleDone(q, o) ==
    /\ q \in api.pending
    /\ api' = [api EXCEPT !.pending = @ \ {q}, !.sent = ApiSend(ApiStatusOf(o))]
    /\ UNCHANGED <<storeVars, uiVars, taskVars, hookVars, envVars, mounted,
                   left>>

\* the steps of the sessions T whose users sign in as one of U
SessionNext(T, U) ==
    \/ \E t \in T, u \in U \cup {NoUser} : AuthStateChanged(t, u)
    \/ \E t \in T : \E r \in reads[t] : GetDocServer(t, r)
    \/ \E t \in T : \E r \in reads[t] : GetDocDone(t, r)
    \/ \E t \in T : \E r \in reads[t] : CreateServer(t, r)
    \/ \E t \in T : \E r \in reads[t] : CreateDone(t, r)
    \/ \E t \in T, file \in GoodFiles : ProcessFile(t, file)
    \/ \E t \in T : HandleDiagnose(t)
    \/ \E t \in T, o \in OracleOutcomes : OracleDone(t, o)
    \/ \E t \in T : IncrServer(t)
    \/ \E t \in T : IncrFail(t)
    \/ \E t \in T : IncrDone(t)
    \/ \E t \in T : PayClick(t)
    \/ \E t \in T : \E p \in pays[t] : PayServer(t, p)
    \/ \E t \in T : \E p \in pays[t] : PayFail(t, p)

\* the steps of the webhook for the events E
HookNext(E) ==
    \/ \E ev \in E : HookReceive(ev)
    \/ \E h \in hooks : HookQuery(h)
    \/ \E h \in hooks : HookUpdate(h)
    \/ \E h \in hooks : HookFail(h)

\* the payment of the first user arrives
PaymentEvents ==
    {[type |-> "pledge_created", payload |-> TRUE, org |-> "nmdong-hue",
      email |-> "a@example.com"]}

\* One session of one user, and the webhook with that user's payment.
Next == SessionNext({"tabA"}, {"u1"}) \/ HookNext(PaymentEvents)

Spec == Init /\ [][Next]_vars

\* Two tabs of one browser profile, nobody signed in: they share the guest
\* counter of localStorage.
InitGuests ==
    /\ docs \in InitDocs
    /\ guestStore \in InitGuest
    /\ InitSessions
    /\ left = [auth |-> 0, diag |-> GuestDiag, hook |-> 0, pay |-> 0,
               load |-> 0, del |-> 0]

NextGuests ==
    \/ \E t \in Tabs, file \in GoodFiles : ProcessFile(t, file)
    \/ \E t \in Tabs : HandleDiagnose(t)
    \/ \E t \in Tabs, o \in OracleOutcomes : OracleDone(t, o)

SpecGuests == InitGuests /\ [][NextGuests]_vars

\* The webhook alone, over the documents two users may have: the second
\* user's document may hold the same email as the first one's.
InitHook ==
    /\ docs \in {[u \in Uids |-> IF u = "u1" THEN d1 ELSE d2] :
                    d1 \in {NoDoc, UserDoc("u1", 0)},
                    d2 \in {NoDoc, UserDoc("u2", 0),
                             [UserDoc("u2", 0) EXCEPT !.email = AuthEmail("u1")]}}
    /\ guestStore = <<>>
    /\ InitSessions
    /\ left = [auth |-> 0, diag |-> 0, hook |-> HookDeliveries, pay |-> 0,
               load |-> 0, del |-> 0]

NextHook == HookNext(HookEvents)

SpecHook == InitHook /\ [][NextHook]_vars


\* The history ledger of a guest in one tab: pages are loaded over what earlier sessions
\* (of this revision or an older one) left in localStorage, with all the room
\* the ledger may need or with no more room than the stored ledger takes.
Old(i, img) == [id |-> i, image |-> img, diagnosis |-> "old", date |-> i]
FullLedger(n) == [i \in 1..n |-> Old(n + 1 - i, "img")]
Mixed ==
    <<Old(5, "img"), NotAnObject,
      [id |-> 4, diagnosis |-> "old", date |-> 4],
      [image |-> NoImage, diagnosis |-> "old", date |-> 3],
      [id |-> 2, image |-> "img", date |-> 2],
      Old(1, NoImage)>>
LedgerBlobs ==
    {NoItem, Corrupt, NotAnArray, ArrayOf(Mixed),
     ArrayOf(FullLedger(MAX_HISTORY_ITEMS)),
     ArrayOf(FullLedger(MAX_HISTORY_ITEMS + 1))}
BlobSize(v) == IF v.kind = "array" THEN SizeOf(v.items) ELSE 0

InitLedger ==
    /\ docs = [u \in Uids |-> NoDoc]
    /\ guestStore = <<>>
    /\ InitApp
    /\ histStore \in LedgerBlobs
    /\ quota \in {Infinity, BlobSize(histStore)}
    /\ now = FirstNow
    /\ mounted = [t \in Tabs |-> FALSE]
    /\ left = [auth |-> 0, diag |-> LedgerDiag, hook |-> 0, pay |-> 0,
               load |-> MaxLoad, del |-> MaxDelete]

\* the answer to a request comes at a later time than the request was sent
Later(c) == c # NoCall /\ now > c.at

NextLedger ==
    \/ \E t \in {"tabA"} : Mount(t)
    \/ \E t \in {"tabA"} : Unload(t)
    \/ \E t \in {"tabA"}, file \in GoodFiles : mounted[t] /\ ProcessFile(t, file)
    \/ \E t \in {"tabA"} : mounted[t] /\ HandleDiagnose(t)
    \/ \E t \in {"tabA"}, o \in OracleOutcomes :
            Later(call[t]) /\ OracleDone(t, o)
    \/ \E t \in {"tabA"} : \E i \in 1..Len(history[t]) :
            DeleteHistoryItem(t, history[t][i].id)
    \/ Tick

SpecLedger == InitLedger /\ [][NextLedger]_vars

\* Two tabs in which the same user is signed in and not paid: each has read
\* the account's document, TabsLeft diagnoses before the limit (678-689).
InitTabs ==
    /\ docs = [u \in Uids |-> IF u = "u1"
                   THEN UserDoc("u1", USER_DIAGNOSIS_LIMIT - TabsLeft)
                   ELSE NoDoc]
    /\ guestStore = <<>>
    /\ user = [t \in Tabs |-> "u1"]
    /\ diagnosisCount = [t \in Tabs |-> CountOfDoc(docs["u1"])]
    /\ diagnosisLimit = [t \in Tabs |-> LimitOfDoc(docs["u1"])]
    /\ image = [t \in Tabs |-> NoImage]
    /\ loading = [t \in Tabs |-> FALSE]
    /\ diagnosis = [t \in Tabs |-> ""]
    /\ history = [t \in Tabs |-> <<>>]
    /\ lastAlert = [t \in Tabs |-> "none"]
    /\ call = [t \in Tabs |-> NoCall]
    /\ reads = [t \in Tabs |-> {}]
    /\ pays = [t \in Tabs |-> {}]
    /\ hooks = {}
    /\ responses = [st \in Statuses |-> 0]
    /\ api = NoRequests
    /\ histStore = NoItem
    /\ now = 1
    /\ quota = Infinity
    /\ mounted = [t \in Tabs |-> TRUE]
    /\ left = [auth |-> 0, diag |-> TabsDiag, hook |-> 0, pay |-> 0,
               load |-> 0, del |-> 0]

NextTabs ==
    \/ \E t \in Tabs, file \in GoodFiles : ProcessFile(t, file)
    \/ \E t \in Tabs : HandleDiagnose(t)
    \/ \E t \in Tabs, o \in OracleOutcomes : OracleDone(t, o)
    \/ \E t \in Tabs : IncrServer(t)
    \/ \E t \in Tabs : IncrFail(t)
    \/ \E t \in Tabs : IncrDone(t)

SpecTabs == InitTabs /\ [][NextTabs]_vars

\* What a guest's session does with the files it is given, whatever becomes
\* of their resizing, and what the endpoint does with the requests it gets.
InitRequests ==
    /\ docs \in InitDocs
    /\ guestStore \in InitGuest
    /\ InitSessions
    /\ left = [auth |-> 0, diag |-> RequestDiag, hook |-> 0, pay |-> 0,
               load |-> 0, del |-> 0]

NextRequests ==
    \/ \E file \in Files : ProcessFile("tabA", file)
    \/ HandleDiagnose("tabA")
    \/ \E o \in OracleOutcomes : OracleDone("tabA", o)
    \/ \E req \in ApiRequests : ApiDiagnose(req)
    \/ \E q \in api.pending : \E o \in OracleOutcomes : ApiOracleDone(q, o)

SpecRequests == InitRequests /\ [][NextRequests]_vars

\* One session in which a first and then a second user may sign in: the
\* first has one diagnosis left, the second has a document or none.
InitSwitch ==
    /\ docs \in {[u \in Uids |-> IF u = "u1"
                      THEN UserDoc("u1", USER_DIAGNOSIS_LIMIT - 1) ELSE d] :
                    d \in {NoDoc, UserDoc("u2", 0)}}
    /\ guestStore \in InitGuest
    /\ InitSessions
    /\ left = [auth |-> SwitchAuth, diag |-> SwitchDiag, hook |-> 0,
               pay |-> 0, load |-> 0, del |-> 0]

NextSwitch ==
    \/ \E u \in Uids \cup {NoUser} : AuthStateChanged("tabA", u)
    \/ \E r \in reads["tabA"] : GetDocServer("tabA", r)
    \/ \E r \in reads["tabA"] : GetDocDone("tabA", r)
    \/ \E r \in reads["tabA"] : CreateServer("tabA", r)
    \/ \E r \in reads["tabA"] : CreateDone("tabA", r)
    \/ \E file \in GoodFiles : ProcessFile("tabA", file)
    \/ HandleDiagnose("tabA")
    \/ \E o \in OracleOutcomes : OracleDone("tabA", o)
    \/ IncrServer("tabA")
    \/ IncrFail("tabA")
    \/ IncrDone("tabA")

SpecSwitch == InitSwitch /\ [][NextSwitch]_vars

\* ================================================================ claims
\* the oracle call of tab t returns a diagnosis (no throw)
OracleSucceeds(t) ==
    \E o \in OracleOutcomes : ~OracleThrows(o) /\ OracleDone(t, o)
\* the oracle call of tab t throws
OracleFails(t) ==
    \E o \in OracleOutcomes : OracleThrows(o) /\ OracleDone(t, o)
\* document d exists and its stored email is exactly e
StoredEmailIs(d, e) == Exists(d) /\ "email" \in DOMAIN d /\ d.email = e
\* the record of a paid account: paid, and the limit unlimited
PaidUnlimited(d) ==
    DocPaid(d) /\ Has(d, "diagnosisLimit") /\ d.diagnosisLimit = Infinity

\* C1: for an identity that has not paid, a successful diagnosis raises the
\* stored counter of that identity by exactly 1 (the guest counter of
\* localStorage, diagnosisCount of the account's document), and a failed or
\* quota-blocked attempt leaves the stored counters as they are.
C1_ExactlyOnePerDiagnosis ==
    [][\A t \in Tabs :
        /\ (OracleSucceeds(t) /\ call[t].user = NoUser)
              => GuestCount(guestStore') = GuestCount(guestStore) + 1
        /\ (OracleSucceeds(t) /\ call[t].user # NoUser
                /\ ~DocPaid(docs[call[t].user]))
              => call'[t].pc = "incr"
        /\ IncrServer(t)
              => DocCount(docs'[call[t].user]) = DocCount(docs[call[t].user]) + 1
        /\ (OracleFails(t) \/ IncrFail(t) \/ DiagnoseBlocked(t))
              => UNCHANGED <<docs, guestStore>>
      ]_vars

\* C2: a diagnose attempt made while the entitlement state is blocked
\* (diagnosisCount >= diagnosisLimit) shows the quota message and does
\* nothing else: no oracle call is started, no counter, document or history
\* changes.
C2_BlockedAttempt ==
    [][\A t \in Tabs :
        (HandleDiagnose(t) /\ image[t] # NoImage /\ IsLimitReached(t))
            => /\ lastAlert'[t] = QuotaMessage(t)
               /\ call' = call
               /\ UNCHANGED <<docs, guestStore, histStore, history,
                              diagnosisCount, diagnosisLimit, loading,
                              diagnosis>>
      ]_vars

\* a guest at GUEST_DIAGNOSIS_LIMIT has tried, and was shown the message
C2_Witness ==
    /\ user["tabA"] = NoUser
    /\ diagnosisCount["tabA"] = GUEST_DIAGNOSIS_LIMIT
    /\ GuestCount(guestStore) = GUEST_DIAGNOSIS_LIMIT
    /\ lastAlert["tabA"] = "quotaGuest"
    /\ call["tabA"] = NoCall

\* C3: on every oracle failure (the call rejected, a malformed response, a
\* response with empty content) the diagnosis shown is the failure message,
\* no counter is touched or about to be, and no history entry is created.
C3_OracleFailure ==
    [][\A t \in Tabs, o \in {"error", "malformed", "empty"} :
        OracleDone(t, o)
            => /\ diagnosis'[t] = "error"
               /\ call'[t] = NoCall
               /\ UNCHANGED <<docs, guestStore, history, histStore>>
      ]_vars

\* C4: in every state every account document that is paid has the limit
\* unlimited, and so has every snapshot a session holds of one; and a session
\* that takes its entitlement state from a paid record takes the limit
\* unlimited.
C4_PaidImpliesUnlimited ==
    /\ [](\A u \in Uids : DocPaid(docs[u]) => PaidUnlimited(docs[u]))
    /\ [](\A t \in Tabs : \A r \in reads[t] :
            DocPaid(r.snap) => PaidUnlimited(r.snap))
    /\ [][\A t \in Tabs : \A r \in reads[t] :
            (GetDocDone(t, r) /\ DocPaid(r.snap))
                => diagnosisLimit'[t] = Infinity]_vars

\* the session has read its paid record after counting a diagnosis on it
C4_Witness ==
    /\ user["tabA"] = "u1"
    /\ PaidUnlimited(docs["u1"])
    /\ DocCount(docs["u1"]) = USER_DIAGNOSIS_LIMIT
    /\ diagnosisLimit["tabA"] = Infinity
    /\ reads["tabA"] = {}

\* C5: the quota check never blocks the attempt of a session whose account's
\* record is paid, and no diagnosis increments the diagnosisCount of a paid
\* record.
C5_PaidExempt ==
    [][\A t \in Tabs :
        /\ DiagnoseBlocked(t)
              => ~(user[t] # NoUser /\ DocPaid(docs[user[t]]))
        /\ IncrServer(t) => ~DocPaid(docs[call[t].user])
      ]_vars

C7_NeverDecreases ==
    [][/\ GuestCount(guestStore') >= GuestCount(guestStore)
       /\ \A u \in Uids : DocCount(docs'[u]) >= DocCount(docs[u])
      ]_vars

\* C8: a signed-in session with nothing pending, whose account's record has
\* reached USER_DIAGNOSIS_LIMIT and has been set paid, is permitted to
\* diagnose: its next attempt decides on the record as it is now.
C8_NextAttemptSeesPayment ==
    \A t \in Tabs :
        (/\ user[t] # NoUser
         /\ reads[t] = {} /\ pays[t] = {} /\ call[t] = NoCall
         /\ DocCount(docs[user[t]]) >= USER_DIAGNOSIS_LIMIT
         /\ DocPaid(docs[user[t]]))
            => ~IsLimitReached(t)

\* C9: the update the webhook makes for a matching event goes to a document
\* whose stored email equals the payer email, leaves it paid with the limit
\* unlimited, is answered 200, and changes no other document; made on a
\* record that is already paid and unlimited (the event delivered again) it
\* changes nothing.  A query that finds such a document is not answered 404.
C9_WebhookGrants ==
    [][\A h \in hooks :
        /\ HookUpdate(h)
              => /\ StoredEmailIs(docs[h.target], h.email)
                 /\ PaidUnlimited(docs'[h.target])
                 /\ responses' = Respond("200 updated")
                 /\ \A v \in Uids \ {h.target} : docs'[v] = docs[v]
                 /\ PaidUnlimited(docs[h.target]) => docs' = docs
        /\ (HookQuery(h)
                /\ \E u \in Uids : StoredEmailIs(docs[u], h.email))
              => /\ responses' = responses
                 /\ \E h2 \in hooks' : h2.pc = "update" /\ h2.email = h.email
      ]_vars

\* the same event was delivered twice, and answered 200 twice
C9_Witness ==
    /\ responses["200 updated"] = 2
    /\ PaidUnlimited(docs["u1"])
    /\ hooks = {}

\* C10: a matching event whose payer email is the stored email of no
\* document (compared exactly) is answered 404 when its query returns, no
\* update is sent for it, and no step of its handling changes a document.
C10_WebhookNotFound ==
    [][/\ \A h \in hooks :
            (HookQuery(h)
                /\ \A u \in Uids : ~StoredEmailIs(docs[u], h.email))
              => /\ responses' = Respond("404")
                 /\ hooks' = hooks \ {h}
                 /\ docs' = docs
       /\ responses'["404"] # responses["404"] => docs' = docs
      ]_vars

\* an event for A@example.com was answered 404 while a@example.com exists
C10_Witness ==
    /\ responses["404"] = 1
    /\ StoredEmailIs(docs["u1"], "a@example.com")
    /\ ~DocPaid(docs["u1"])
    /\ hooks = {}

\* the number of responses sent so far
Responded ==
    responses["200 updated"] + responses["200 skipped"]
        + responses["404"] + responses["500"]

\* C11: an event that has its payload and whose type and organization name
\* are not exactly "pledge_created" and "nmdong-hue" is answered 200
\* "skipped" at once: no lookup is started for it and no document changes;
\* and no lookup or update in progress is for another organization name.
C11_SkipUnlessExactPair ==
    /\ [][\A ev \in HookEvents :
            (/\ HookReceive(ev) /\ ev.payload
             /\ ~(ev.type = "pledge_created" /\ ev.org = "nmdong-hue"))
                => /\ responses' = Respond("200 skipped")
                   /\ hooks' = hooks
                   /\ docs' = docs
         ]_vars
    /\ [](\A h \in hooks : h.org = "nmdong-hue")

\* C12: an event without the nested payload is answered 200 "skipped",
\* whatever its type, and no document changes.
C12_MalformedSkipped ==
    [][\A ev \in HookEvents :
        (HookReceive(ev) /\ ~ev.payload)
            => /\ responses' = Respond("200 skipped")
               /\ hooks' = hooks
               /\ docs' = docs
      ]_vars

\* C13: every invocation of the webhook is answered exactly once: a step
\* sends at most one response, each response ends one invocation (or answers
\* the arriving one), and an invocation that ended was answered; a step that
\* answers 404 or 500 changes no document; and a lookup is started only by an
\* arriving request, an invocation that failed or updated is over (no retry).
C13_OneResponse ==
    [][/\ Responded' + Cardinality(hooks') + left'.hook
            = Responded + Cardinality(hooks) + left.hook
       /\ Responded' \in {Responded, Responded + 1}
       /\ \A st \in Statuses : responses'[st] >= responses[st]
       /\ (responses'["404"] # responses["404"]
                \/ responses'["500"] # responses["500"]) => docs' = docs
       /\ \A h \in hooks :
            /\ HookUpdate(h) /\ docs' # docs
                  => responses' = Respond("200 updated")
            /\ (HookUpdate(h) \/ HookFail(h)) => hooks' = hooks \ {h}
       /\ \A h2 \in hooks' \ hooks :
            h2.pc = "query" => left'.hook < left.hook
      ]_vars

\* one event was answered 200, one 404 and one 500, and nothing is pending
C13_Witness ==
    /\ responses["200 updated"] = 1
    /\ responses["404"] = 1
    /\ responses["500"] = 1
    /\ hooks = {}
    /\ left.hook = 0

\* a step of tab t that ends with saveHistoryToLocalStorage
AppendStep(t) == OracleSucceeds(t) \/ IncrDone(t)
DeleteStep(t) ==
    \E i \in 1..Len(history[t]) : DeleteHistoryItem(t, history[t][i].id)
\* entry e of a stored array conforms to the shape of a history item
Conforms(e) ==
    /\ DOMAIN e \subseteq {"id", "image", "diagnosis", "date"}
    /\ {"image", "diagnosis", "date"} \subseteq DOMAIN e

\* C14: the history of every session has at most MAX_HISTORY_ITEMS entries in
\* every state, loaded or appended to; and a diagnosis appended to a history
\* of MAX_HISTORY_ITEMS entries leaves MAX_HISTORY_ITEMS entries: the new one
\* first, then the former ones in order without the last.
C14_LedgerBounded ==
    /\ [](\A t \in Tabs : Len(history[t]) <= MAX_HISTORY_ITEMS)
    /\ [][\A t \in Tabs :
            (AppendStep(t) /\ Len(history[t]) = MAX_HISTORY_ITEMS)
                => /\ Len(history'[t]) = MAX_HISTORY_ITEMS
                   /\ Head(history'[t]).diagnosis = diagnosis'[t]
                   /\ Tail(history'[t])
                        = SubSeq(history[t], 1, MAX_HISTORY_ITEMS - 1)
         ]_vars

\* a diagnosis was appended to the 20 entries loaded: the oldest is gone
C14_Witness ==
    /\ Len(history["tabA"]) = MAX_HISTORY_ITEMS
    /\ history["tabA"][1].diagnosis = "result"
    /\ history["tabA"][2].id = MAX_HISTORY_ITEMS
    /\ history["tabA"][MAX_HISTORY_ITEMS].id = 2

\* C15: what a save stores is the history of the session as it is, entry for
\* entry; and loading a stored array of at most MAX_HISTORY_ITEMS conforming
\* entries gives a history of the same length and order, with the image,
\* diagnosis and date of each entry, and its id if it has one.
C15_RoundTrip ==
    [][\A t \in Tabs :
        /\ ((AppendStep(t) \/ DeleteStep(t)) /\ histStore' # histStore)
              => /\ histStore'.kind = "array"
                 /\ histStore'.items = history'[t]
                 /\ Len(history'[t]) <= MAX_HISTORY_ITEMS
                 /\ \A i \in 1..Len(history'[t]) :
                        Conforms(history'[t][i]) /\ "id" \in DOMAIN history'[t][i]
        /\ (/\ Mount(t) /\ histStore.kind = "array"
            /\ Len(histStore.items) <= MAX_HISTORY_ITEMS
            /\ \A i \in 1..Len(histStore.items) : Conforms(histStore.items[i]))
              => /\ Len(history'[t]) = Len(histStore.items)
                 /\ \A i \in 1..Len(histStore.items) :
                        LET e == histStore.items[i]
                            item == history'[t][i]
                        IN  /\ item.image = e.image
                            /\ item.diagnosis = e.diagnosis
                            /\ item.date = e.date
                            /\ "id" \in DOMAIN e => item.id = e.id
      ]_vars

\* the page was loaded again and shows the diagnosis made before
C15_Witness ==
    /\ mounted["tabA"] /\ left.load = 0
    /\ image["tabA"] = NoImage
    /\ Len(history["tabA"]) >= 1
    /\ history["tabA"][1].diagnosis = "result"
    /\ histStore = ArrayOf(history["tabA"])

\* history h with the image field of every entry taken out
Stripped(h) ==
    [i \in 1..Len(h) |-> [f \in DOMAIN h[i] \ {"image"} |-> h[i][f]]]
\* the entries of sequence h
EntriesOf(h) == {h[i] : i \in 1..Len(h)}

\* C16: when the history of a save does not fit in storage with its images,
\* the history without the images is stored if that fits, and no warning is
\* shown; the warning is shown only when that does not fit either.
C16_StripAndRetry ==
    [][\A t \in Tabs :
        ((AppendStep(t) \/ DeleteStep(t))
            /\ SetItemThrows(Stringify(history'[t])))
          => IF SetItemThrows(Stringify(Stripped(history'[t])))
             THEN lastAlert'[t] = "storage"
             ELSE /\ histStore' = Stringify(Stripped(history'[t]))
                  /\ lastAlert'[t] = lastAlert[t]
      ]_vars

\* C17: a save that fails (the warning is shown, the stored value stays)
\* ends the operation as a save that succeeds does: after a diagnosis the
\* session is idle, its history begins with the new diagnosis followed by
\* entries it had, and a guest's counters are one up; after a deletion the
\* history is the former one without the deleted entry.
C17_FailedSaveKeepsLedger ==
    [][\A t \in Tabs :
        /\ (AppendStep(t) /\ histStore' = histStore
                /\ lastAlert'[t] = "storage")
              => /\ mounted'[t] /\ ~loading'[t] /\ call'[t] = NoCall
                 /\ Len(history'[t]) >= 1
                 /\ Head(history'[t]).diagnosis = diagnosis'[t]
                 /\ diagnosis'[t] \in {"result", "unavailable"}
                 /\ EntriesOf(Tail(history'[t])) \subseteq EntriesOf(call[t].history)
                 /\ call[t].user = NoUser
                      => /\ diagnosisCount'[t] = diagnosisCount[t] + 1
                         /\ GuestCount(guestStore') = call[t].diagnosisCount + 1
        /\ \A i \in 1..Len(history[t]) :
            (DeleteHistoryItem(t, history[t][i].id) /\ histStore' = histStore
                /\ lastAlert'[t] = "storage")
              => /\ mounted'[t]
                 /\ EntriesOf(history'[t])
                      = {e \in EntriesOf(history[t]) : e.id # history[t][i].id}
      ]_vars

\* the diagnosis is in the history and counted, and could not be stored
C17_Witness ==
    /\ lastAlert["tabA"] = "storage"
    /\ Len(history["tabA"]) >= 1
    /\ history["tabA"][1].diagnosis = "result"
    /\ diagnosisCount["tabA"] = 1 /\ GuestCount(guestStore) = 1
    /\ histStore # ArrayOf(history["tabA"])
    /\ call["tabA"] = NoCall

\* C18: loading ends with the page mounted, whatever is stored; of a stored
\* array the loaded history holds the conforming entries, in their order, up
\* to MAX_HISTORY_ITEMS, and nothing else; a stored value that does not
\* parse is removed, so the store is empty for the next load.
C18_LoadIsTotal ==
    [][\A t \in Tabs :
        Mount(t)
          => /\ mounted'[t]
             /\ histStore.kind = "array"
                  => LET es == histStore.items
                         K == {j \in 1..Len(es) : Conforms(es[j])}
                         Nth(i) == CHOOSE j \in K :
                                     Cardinality({k \in K : k <= j}) = i
                     IN  /\ histStore' = histStore
                         /\ Len(history'[t]) =
                              IF Cardinality(K) <= MAX_HISTORY_ITEMS
                              THEN Cardinality(K) ELSE MAX_HISTORY_ITEMS
                         /\ \A i \in 1..Len(history'[t]) :
                              /\ history'[t][i].image = es[Nth(i)].image
                              /\ history'[t][i].diagnosis = es[Nth(i)].diagnosis
                              /\ history'[t][i].date = es[Nth(i)].date
             /\ histStore.kind = "corrupt"
                  => histStore' = NoItem /\ history'[t] = <<>>
             /\ histStore.kind \in {"absent", "object"}
                  => histStore' = histStore /\ history'[t] = <<>>
      ]_vars

\* three of the six stored entries were loaded, one of them given an id
C18_Witness ==
    /\ mounted["tabA"]
    /\ histStore = ArrayOf(Mixed)
    /\ Len(history["tabA"]) = 3
    /\ history["tabA"][1].id = 5
    /\ history["tabA"][2].id >= FirstNow
    /\ history["tabA"][3].id = 1

\* C19: the read of a sign-in takes the account's document as it is on the
\* server; from an existing document the session takes diagnosisCount, and
\* the limit Infinity if hasPaid, the stored diagnosisLimit otherwise; for an
\* absent one a document is written with diagnosisCount 0, diagnosisLimit
\* USER_DIAGNOSIS_LIMIT and hasPaid false, and the session takes 0 and
\* USER_DIAGNOSIS_LIMIT.
C19_SignInRead ==
    [][\A t \in Tabs : \A r \in reads[t] :
        /\ GetDocServer(t, r)
              => \E r2 \in reads'[t] :
                    r2.user = r.user /\ r2.snap = docs[r.user]
        /\ (GetDocDone(t, r) /\ Exists(r.snap))
              => /\ diagnosisCount'[t] =
                        (IF Has(r.snap, "diagnosisCount")
                         THEN r.snap.diagnosisCount ELSE 0)
                 /\ DocPaid(r.snap) => diagnosisLimit'[t] = Infinity
                 /\ (~DocPaid(r.snap) /\ Has(r.snap, "diagnosisLimit")
                        /\ r.snap.diagnosisLimit # 0)
                      => diagnosisLimit'[t] = r.snap.diagnosisLimit
                 /\ docs' = docs
        /\ (GetDocDone(t, r) /\ ~Exists(r.snap))
              => /\ docs' = docs
                 /\ \E r2 \in reads'[t] : r2.user = r.user /\ r2.pc = "setDoc"
        /\ CreateServer(t, r)
              => /\ Exists(docs'[r.user])
                 /\ docs'[r.user].diagnosisCount = 0
                 /\ docs'[r.user].diagnosisLimit = USER_DIAGNOSIS_LIMIT
                 /\ docs'[r.user].hasPaid = FALSE
        /\ CreateDone(t, r)
              => /\ diagnosisCount'[t] = 0
                 /\ diagnosisLimit'[t] = USER_DIAGNOSIS_LIMIT
      ]_vars

\* a guest at 4 of 5 signed in to an account without a document: 0 of 20
C19_Witness ==
    /\ user["tabA"] = "u1" /\ reads["tabA"] = {}
    /\ GuestCount(guestStore) = GUEST_DIAGNOSIS_LIMIT - 1
    /\ StoredEmailIs(docs["u1"], "a@example.com")
    /\ DocCount(docs["u1"]) = 0 /\ ~DocPaid(docs["u1"])
    /\ diagnosisCount["tabA"] = 0
    /\ diagnosisLimit["tabA"] = USER_DIAGNOSIS_LIMIT

\* C20: the sign-out gives the session the guest counter of localStorage (0
\* if absent) and the limit GUEST_DIAGNOSIS_LIMIT, and so does the completion
\* of the last read that was pending in a signed-out session.
C20_SignedOutIsGuest ==
    [][\A t \in Tabs :
        /\ (AuthStateChanged(t, NoUser) /\ reads[t] = {})
              => /\ diagnosisLimit'[t] = GUEST_DIAGNOSIS_LIMIT
                 /\ diagnosisCount'[t] = GuestCount(guestStore')
        /\ \A r \in reads[t] :
            ((GetDocDone(t, r) \/ CreateDone(t, r))
                /\ user[t] = NoUser /\ reads'[t] = {})
              => /\ diagnosisLimit'[t] = GUEST_DIAGNOSIS_LIMIT
                 /\ diagnosisCount'[t] = GuestCount(guestStore')
      ]_vars

\* the guest counter of the device is used up, and the session holds it
GuestBlocked(t) ==
    /\ GuestCount(guestStore) >= GUEST_DIAGNOSIS_LIMIT
    /\ diagnosisLimit[t] = GUEST_DIAGNOSIS_LIMIT
    /\ diagnosisCount[t] >= GUEST_DIAGNOSIS_LIMIT

\* C21: a session blocked at the guest limit gets out of that state only
\* signed in; a completed read of a sign-in gives the session the count of
\* the account's document (0 for a document it had to create), never the
\* guest's; and neither the sign-in, nor its read, nor a diagnosis of a
\* signed-in user changes guestDiagnosisCount in localStorage.
C21_GuestCountNotTransferred ==
    [][\A t \in Tabs :
        /\ (GuestBlocked(t) /\ ~GuestBlocked(t)') => user'[t] # NoUser
        /\ \A r \in reads[t] :
              /\ (GetDocDone(t, r) /\ Exists(r.snap))
                    => diagnosisCount'[t] = DocCount(r.snap)
              /\ CreateDone(t, r) => diagnosisCount'[t] = 0
              /\ (GetDocServer(t, r) \/ GetDocDone(t, r)
                     \/ CreateServer(t, r) \/ CreateDone(t, r))
                    => guestStore' = guestStore
        /\ (\E u \in Uids : AuthStateChanged(t, u))
              => guestStore' = guestStore
        /\ (call[t] # NoCall /\ call[t].user # NoUser /\ call'[t] # call[t])
              => guestStore' = guestStore
      ]_vars

\* C22: a session has at most one diagnosis in flight: an oracle call is
\* started only in a session that is not loading and has no call pending,
\* and it sets loading; while a call is pending the session is loading.
C22_OneInFlight ==
    [][\A t \in Tabs :
        /\ (call'[t] # call[t] /\ call'[t].pc = "oracle")
              => /\ call[t] = NoCall
                 /\ ~loading[t]
                 /\ loading'[t]
        /\ call'[t] # NoCall => loading'[t]
      ]_vars

\* the second call of a session, started after the first one had ended
C22_Witness ==
    /\ call["tabA"] # NoCall /\ call["tabA"].pc = "oracle"
    /\ loading["tabA"]
    /\ left.diag = MaxDiag - 2
    /\ Len(history["tabA"]) = 1

\* the other tabs
Others(t) == Tabs \ {t}

\* C23: with the sessions of Tabs signed in to one unpaid account, the
\* count in the account's document passes USER_DIAGNOSIS_LIMIT by at most one
\* for every session but one, and a diagnosis that is started when the
\* document has reached the limit starts while the call of another session
\* is still pending.
C23_BoundedExcess ==
    /\ [](\A u \in Uids :
            (Exists(docs[u]) /\ ~DocPaid(docs[u]))
              => DocCount(docs[u])
                    <= USER_DIAGNOSIS_LIMIT + (Cardinality(Tabs) - 1))
    /\ [][\A t \in Tabs :
            (call[t] = NoCall /\ call'[t] # NoCall
                /\ call'[t].user # NoUser
                /\ DocCount(docs[call'[t].user]) >= USER_DIAGNOSIS_LIMIT)
              => \E t2 \in Others(t) : call[t2] # NoCall
         ]_vars

\* the fields in which document u differs after the step (a document that
\* does not exist has none)
Fields == {"email", "displayName", "diagnosisCount", "diagnosisLimit",
           "hasPaid", "createdAt"}
FieldOf(d, f) == IF Has(d, f) THEN <<d[f]>> ELSE <<>>
Changed(u) == {f \in Fields : FieldOf(docs'[u], f) # FieldOf(docs[u], f)}

\* C24: on a document that exists already, the increment changes only
\* diagnosisCount, the payment (simulated or by webhook) only hasPaid and
\* diagnosisLimit, and every other step changes no field at all.
C24_WritesMerge ==
    [][\A u \in Uids : Exists(docs[u]) =>
        /\ Exists(docs'[u])
        /\ (\E t \in Tabs : IncrServer(t))
              => Changed(u) \subseteq {"diagnosisCount"}
        /\ ((\E t \in Tabs : \E p \in pays[t] : PayServer(t, p))
                \/ (\E h \in hooks : HookUpdate(h)))
              => Changed(u) \subseteq {"hasPaid", "diagnosisLimit"}
        /\ ~((\E t \in Tabs : IncrServer(t))
                \/ (\E t \in Tabs : \E p \in pays[t] : PayServer(t, p))
                \/ (\E h \in hooks : HookUpdate(h)))
              => Changed(u) = {}
      ]_vars

\* C25: processFile on a file of an image type leaves the session with an
\* encoded image, whatever becomes of the resizing (the fallback delivers the
\* original encoding), and it changes neither the users' documents, nor the
\* guest counter, nor the history in memory or in localStorage.
C25_IngestDelivers ==
    [][\A t \in Tabs : \A file \in Files :
        (ProcessFile(t, file) /\ IsImageType(file.type))
          => /\ image'[t] # NoImage
             /\ UNCHANGED <<docs, guestStore, histStore, history>>
      ]_vars

\* C26: a request without what it needs is turned down before anything is
\* asked of the oracle.  In the session, handleDiagnose without an image
\* starts no call, does not set loading, and changes no counter, document or
\* history.  At the endpoint, a request without image or without crop gets
\* the response 400, and the oracle is not called for it.
C26_RejectedLocally ==
    [][/\ \A t \in Tabs :
            (HandleDiagnose(t) /\ image[t] = NoImage)
              => UNCHANGED <<call, loading, diagnosisCount, docs, guestStore,
                             history, histStore>>
       /\ \A req \in ApiRequests :
            (ApiDiagnose(req) /\ (req.image = "" \/ req.crop = ""))
              => /\ api'.calls = api.calls
                 /\ api'.pending = api.pending
                 /\ api'.sent = [api.sent EXCEPT ![400] = @ + 1]
                 /\ UNCHANGED <<call, loading, diagnosisCount, docs,
                                guestStore, history, histStore>>
      ]_vars

\* both requests of the endpoint were turned down, and the session has no
\* image and no call
C26_Witness ==
    /\ api.received = MaxRequests
    /\ api.sent[400] = MaxRequests
    /\ api.calls = 0 /\ api.pending = {}
    /\ image["tabA"] = NoImage
    /\ call["tabA"] = NoCall /\ ~loading["tabA"]
    /\ history["tabA"] = <<>>

\* disabled={!image || loading || isLimitReached} (953)
ButtonDisabled(t) == image[t] = NoImage \/ loading[t] \/ IsLimitReached(t)

\* C27: a session is loading exactly while a handleDiagnose call of it is
\* pending (its oracle call or its counter update); the step that ends the
\* call, by a result or by an error, sets loading to false, and the button
\* is enabled again unless there is no image or the quota is reached; an
\* attempt that is turned down for a missing image or for the quota does not
\* set loading.
C27_LoadingWhilePending ==
    /\ [](\A t \in Tabs : loading[t] <=> call[t] # NoCall)
    /\ [][\A t \in Tabs :
            /\ (call[t] # NoCall /\ call'[t] = NoCall)
                  => /\ ~loading'[t]
                     /\ (image'[t] # NoImage /\ ~IsLimitReached(t)')
                           => ~ButtonDisabled(t)'
            /\ (call[t] # NoCall /\ call'[t] # NoCall) => loading'[t]
            /\ (DiagnoseNoImage(t) \/ DiagnoseBlocked(t))
                  => ~loading'[t] /\ call'[t] = NoCall
         ]_vars

\* a call ended by an error after one that ended by a result: the session
\* is not loading
C27_Witness ==
    /\ ~loading["tabA"] /\ call["tabA"] = NoCall
    /\ diagnosis["tabA"] = "error"
    /\ Len(history["tabA"]) = 1
    /\ left.diag = MaxDiag - 2

\* the place of a document id in the order of the collection
IndexOf(u) == CHOOSE i \in 1..Len(UidOrder) : UidOrder[i] = u

\* the documents a step writes to
Written == {u \in Uids : docs'[u] # docs[u]}

\* C28: a step of the webhook writes to at most one document.  When several
\* documents hold the payer's email the query takes the first of them, the
\* update sets that one paid, and the others stay as they are.
C28_OneAccountPerDelivery ==
    [][/\ Cardinality(Written) <= 1
       /\ \A h \in hooks :
            /\ (HookQuery(h) /\ Matching(h.email) # {})
                  => \E h2 \in hooks' \ hooks :
                        /\ h2.pc = "update"
                        /\ h2.target \in Matching(h.email)
                        /\ \A u \in Matching(h.email) :
                                IndexOf(h2.target) <= IndexOf(u)
                        /\ Written = {}
            /\ HookUpdate(h)
                  => /\ Written \subseteq {h.target}
                     /\ Exists(docs[h.target]) => PaidUnlimited(docs'[h.target])
      ]_vars

\* two documents hold the payer's email; one delivery was answered with
\* 200: the first document is paid, the second is not
C28_Witness ==
    /\ StoredEmailIs(docs["u1"], "a@example.com")
    /\ StoredEmailIs(docs["u2"], "a@example.com")
    /\ PaidUnlimited(docs["u1"])
    /\ ~DocPaid(docs["u2"])
    /\ responses["200 updated"] = 1
    /\ hooks = {}

\* the entries of a are entries of b, in the order they have in b
RECURSIVE IsSubseq(_, _)
IsSubseq(a, b) ==
    IF a = <<>> THEN TRUE
    ELSE IF b = <<>> THEN FALSE
    ELSE IF Head(a) = Head(b) THEN IsSubseq(Tail(a), Tail(b))
    ELSE IsSubseq(a, Tail(b))

\* the places of history h whose entry has the id
PlacesOf(h, id) == {i \in 1..Len(h) : h[i].id = id}

\* C29: a successful diagnosis puts its entry first in the history, and the
\* entries the history had follow it in the order they had (without the last
\* of them at most); handleDeleteHistoryItem(id) takes out the entries with
\* that id and leaves the others as they were, in the order they had.
C29_NewestFirst ==
    [][\A t \in Tabs :
        /\ AppendStep(t)
              => /\ history'[t] # <<>>
                 /\ Head(history'[t]).diagnosis = diagnosis'[t]
                 /\ Head(history'[t]).id = now
                 /\ \E k \in {Len(history[t]) - 1, Len(history[t])} :
                        /\ k >= 0
                        /\ IsSubseq(SubSeq(history[t], 1, k),
                                    Tail(history'[t]))
        /\ \A i \in 1..Len(history[t]) :
              DeleteHistoryItem(t, history[t][i].id)
                => /\ PlacesOf(history'[t], history[t][i].id) = {}
                   /\ Len(history'[t]) = Len(history[t])
                        - Cardinality(PlacesOf(history[t], history[t][i].id))
                   /\ IsSubseq(history'[t], history[t])
      ]_vars

\* three entries were loaded, a diagnosis was put before them, and the
\* second of the loaded ones was deleted
C29_Witness ==
    /\ Len(history["tabA"]) = 3
    /\ history["tabA"][1].diagnosis = "result"
    /\ history["tabA"][2].id = 5
    /\ history["tabA"][3].id = 1
    /\ left.del = MaxDelete - 1

\* C30: in every state the entries of a session's history have ids that
\* differ from one another, the ids given at load to entries that had none
\* among them; and so handleDeleteHistoryItem(id) takes out exactly one
\* entry.
C30_DistinctIds ==
    /\ [](\A t \in Tabs : \A i, j \in 1..Len(history[t]) :
            history[t][i].id = history[t][j].id => i = j)
    /\ [][\A t \in Tabs : \A i \in 1..Len(history[t]) :
            DeleteHistoryItem(t, history[t][i].id)
              => Len(history'[t]) = Len(history[t]) - 1
         ]_vars

\* C31: an entry that handleDeleteHistoryItem took out does not come back:
\* behind its new entry, a completed diagnosis leaves in the history and in
\* localStorage only entries the history held just before, also when an
\* entry was deleted while the diagnosis was in flight.
C31_RemovedStaysRemoved ==
    [][\A t \in Tabs :
        AppendStep(t)
          => /\ history'[t] # <<>>
             /\ IsSubseq(Tail(history'[t]), history[t])
             /\ histStore' # histStore
                   => /\ histStore'.kind = "array"
                      /\ histStore'.items # <<>>
                      /\ IsSubseq(Tail(histStore'.items), history[t])
      ]_vars

\* the stored counter of the identity of session t
StoredCount(t) ==
    IF user[t] = NoUser THEN GuestCount(guestStore)
    ELSE DocCount(docs[user[t]])

\* session t waits for nothing, and the webhook has not been called
Quiet(t) ==
    /\ call[t] = NoCall /\ reads[t] = {} /\ pays[t] = {}
    /\ hooks = {} /\ left.hook = MaxHook

\* C32: in the one session, with no webhook delivery, whenever no diagnosis
\* and no read of the account is pending the count the session holds is the
\* stored counter of its identity: guestDiagnosisCount when signed out, the
\* diagnosisCount of the user's document when signed in.
C32_MirrorsStoredCount ==
    Quiet("tabA") => diagnosisCount["tabA"] = StoredCount("tabA")

\* C33: in the one session the stored guest counter never passes
\* GUEST_DIAGNOSIS_LIMIT, and the diagnosisCount of a document that is not
\* paid never passes USER_DIAGNOSIS_LIMIT, whatever diagnoses, sign-ins and
\* sign-outs there were.
C33_CountersWithinLimits ==
    /\ GuestCount(guestStore) <= GUEST_DIAGNOSIS_LIMIT
    /\ \A u \in Uids :
          (Exists(docs[u]) /\ ~DocPaid(docs[u]))
            => DocCount(docs[u]) <= USER_DIAGNOSIS_LIMIT

\* C34: a document that is paid (hasPaid true, the limit Infinity) stays so
\* through every step: a sign-in and its reads, the creation of a document
\* that a sign-in did not find, a diagnosis, a simulated payment, a webhook
\* delivery.
C34_PaidStaysPaid ==
    [][\A u \in Uids :
        PaidUnlimited(docs[u]) => PaidUnlimited(docs'[u])
      ]_vars

\* the step puts a new entry at the head of the history of session t
Appends(t) == history'[t] # history[t]

\* C35: for an identity that has not paid, a diagnosis puts an entry in the
\* history exactly when it has raised the stored counter of that identity.
\* A guest's diagnosis does both in the step that handles the oracle's
\* answer (it writes the count it holds plus one).  For a user whose document is not paid that step does neither: the
\* increment is sent, the entry follows once the server has applied it, and
\* when the server rejects it there is no entry and the session's count
\* stays.  A failed oracle call does neither.
C35_AppendWithIncrement ==
    [][\A t \in Tabs :
        /\ (OracleSucceeds(t) /\ call[t].user = NoUser)
              => /\ Appends(t)
                 /\ guestStore' = ToStr(call[t].diagnosisCount + 1)
        /\ (OracleSucceeds(t) /\ call[t].user # NoUser
                /\ ~DocPaid(docs[call[t].user]))
              => /\ ~Appends(t)
                 /\ call'[t].pc = "incr"
        /\ IncrServer(t)
              => /\ ~Appends(t)
                 /\ DocCount(docs'[call[t].user])
                        > DocCount(docs[call[t].user])
                 /\ call'[t].pc = "ack"
        /\ IncrDone(t) => Appends(t) /\ call[t].pc = "ack"
        /\ IncrFail(t)
              => /\ ~Appends(t)
                 /\ UNCHANGED <<docs, guestStore, histStore, diagnosisCount>>
        /\ OracleFails(t)
              => /\ ~Appends(t)
                 /\ UNCHANGED <<docs, guestStore, histStore, diagnosisCount>>
      ]_vars

\* C36: a diagnosis changes only the stored counter of the identity that
\* started it, whoever is signed in when it completes: the call of a guest
\* changes no document, and the call of a user changes neither the guest
\* counter nor the document of another user.
C36_OnlyOwnCounter ==
    [][\A t \in Tabs :
        (call[t] # NoCall /\ call'[t] # call[t])
          => /\ call[t].user = NoUser => docs' = docs
             /\ call[t].user # NoUser
                  => /\ guestStore' = guestStore
                     /\ \A u \in Uids \ {call[t].user} : docs'[u] = docs[u]
      ]_vars

\* a diagnosis that u1 started was completed with u2 signed in, after the
\* read of that sign-in: the document of u1 was raised to its limit, the
\* document of u2 and the guest counter hold what they held, and the session
\* of u2 counts one more than the document of u2
C36_Witness ==
    /\ user["tabA"] = "u2"
    /\ call["tabA"] = NoCall /\ reads["tabA"] = {}
    /\ Len(history["tabA"]) = 1
    /\ DocCount(docs["u1"]) = USER_DIAGNOSIS_LIMIT
    /\ Exists(docs["u2"]) /\ DocCount(docs["u2"]) = 0
    /\ diagnosisCount["tabA"] = 1
    /\ guestStore = <<>>
    /\ left.diag = SwitchDiag - 1

====
